---- MODULE Spec2Model ----
(***************************************************************************)
(* Model of sw.py: the SSH wallet.  One invocation of the program is       *)
(* main() dispatching one command; the decorated command reads the keyring *)
(* file, runs the command on the parsed value and writes the result back.  *)
(*                                                                         *)
(* A Python dict is a sequence of <<key, value>> pairs in insertion order  *)
(* with unique keys.  A Python value that a command handles is a record    *)
(* [k, d]: k = "None" for None, k = "dict" for a dict whose items are d.   *)
(* The content of a file is a record [t, d]: t is "missing" (no file),     *)
(* "undecodable" (bytes that are not UTF-8), "malformed" (text that is not *)
(* JSON, the empty text included), "null" (the JSON text null) or "object" *)
(* (a JSON object whose members are d).                                    *)
(***************************************************************************)
EXTENDS Integers, Sequences, FiniteSets, TLC

\* Bound: the largest number of arguments after the command name.
MaxArgs == 3

\* The strings the invocations are drawn from.
Labels == {"db", "web"}
Addrs == {"10.0.0.1", "10.0.0.2"}
Paths == {"in.json", "bad.json", "none.json"}
Extra == {"extra"}

VERSION == "0.2.0"

NoExc == "none"

None == [k |-> "None", d |-> <<>>]
Dict(d) == [k |-> "dict", d |-> d]

Missing == [t |-> "missing", d |-> <<>>]
Undecodable == [t |-> "undecodable", d |-> <<>>]
Malformed == [t |-> "malformed", d |-> <<>>]

(***************************************************************************)
(* dict operations                                                         *)
(***************************************************************************)
\* key in d
dict_contains(d, key) == \E i \in 1..Len(d) : d[i][1] = key

\* d[key], for a key that is in d
dict_getitem(d, key) == d[CHOOSE i \in 1..Len(d) : d[i][1] = key][2]

\* Mutant of dict_setitem: the keyring is replaced by the one new entry.
dict_setitem_alone(d, key, val) == <<<<key, val>>>>

\* d[key] = val: a key already there keeps its place, a new one goes last
dict_setitem(d, key, val) ==
    IF dict_contains(d, key)
    THEN [i \in 1..Len(d) |-> IF d[i][1] = key THEN <<key, val>> ELSE d[i]]
    ELSE Append(d, <<key, val>>)

\* d.pop(key)
dict_pop(d, key) == SelectSeq(d, LAMBDA e : e[1] # key)

\* {**a, **b}
RECURSIVE dict_merge(_, _)
dict_merge(a, b) ==
    IF b = <<>> THEN a
    ELSE dict_merge(dict_setitem(a, Head(b)[1], Head(b)[2]), Tail(b))

\* bool(v): None and the empty dict are false
truthy(v) == v.k = "dict" /\ v.d # <<>>

(***************************************************************************)
(* json                                                                    *)
(***************************************************************************)
\* json.dumps(v): the text written to a file
json_dumps(v) ==
    IF v.k = "None" THEN [t |-> "null", d |-> <<>>]
    ELSE [t |-> "object", d |-> v.d]

\* open(path, 'r', encoding='utf-8'), f.read(), json.loads(text)
read_json(f) ==
    CASE f.t = "missing" -> [exc |-> "FileNotFoundError", val |-> None]
      [] f.t = "undecodable" -> [exc |-> "UnicodeDecodeError", val |-> None]
      [] f.t = "malformed" -> [exc |-> "JSONDecodeError", val |-> None]
      [] f.t = "null" -> [exc |-> NoExc, val |-> None]
      [] OTHER -> [exc |-> NoExc, val |-> Dict(f.d)]

\* The files an import can name.
ImportFiles ==
    [p \in Paths |->
        CASE p = "in.json" -> [t |-> "object", d |-> <<<<"db", "10.0.0.2">>>>]
          [] p = "bad.json" -> Malformed
          [] OTHER -> Missing]

(***************************************************************************)
(* The result of a call: the exception it raised (NoExc when it returned), *)
(* the value it returned, the lines it printed, the decorators and bodies  *)
(* that ran (in order), and the content of the keyring file after it.      *)
(***************************************************************************)
Return(v, o, e, f) == [exc |-> NoExc, ret |-> v, out |-> o, ev |-> e, file |-> f]
Raise(x, o, e, f) == [exc |-> x, ret |-> None, out |-> o, ev |-> e, file |-> f]

\* r, reached through the wrappers e
After(e, r) == [r EXCEPT !.ev = e \o @]

\* A call fn(*args, keyring=keyring) with n positional arguments, of a
\* function whose parameters are params, fails to bind: too many positional
\* arguments, keyring given twice, or a parameter left without a value.
BindError(params, n) ==
    \/ n > Len(params)
    \/ \E i \in 1..n : params[i] = "keyring"
    \/ \E i \in (n + 1)..Len(params) : params[i] # "keyring"

(***************************************************************************)
(* save_keyring and the open_keyring decorator                             *)
(***************************************************************************)
\* Mutant of save_keyring: the entries are merged into the object the file
\* holds instead of replacing the content of the file.
save_keyring_merging(keyring, f, w) ==
    IF ~w THEN [exc |-> "PermissionError", file |-> f]
    ELSE IF f.t = "object" /\ keyring.k = "dict"
    THEN [exc |-> NoExc, file |-> [t |-> "object", d |-> dict_merge(f.d, keyring.d)]]
    ELSE [exc |-> NoExc, file |-> json_dumps(keyring)]

\* save_keyring(keyring) on a file that holds f: w says whether the file can
\* be opened for writing.  Opening with 'w+' and writing is one step.
save_keyring(keyring, f, w) ==
    IF w THEN [exc |-> NoExc, file |-> json_dumps(keyring)]
    ELSE [exc |-> "PermissionError", file |-> f]

\* The load step of open_keyring_fn: what was read, the keyring the command
\* gets, and the exception that escapes the try statement.
open_keyring_read(f) ==
    LET r == read_json(f) IN
    IF r.exc \in {"JSONDecodeError", "FileNotFoundError"}
    THEN [read |-> f.t, raised |-> NoExc, keyring |-> Dict(<<>>)]
    ELSE [read |-> f.t, raised |-> r.exc, keyring |-> r.val]

\* The rest of open_keyring_fn: fn(*args, **kwargs, keyring=keyring), whose
\* result is inner when the call binds, and the save when write is set.
open_keyring_call(write, kwargs, w, inner) ==
    IF "keyring" \in kwargs THEN Raise("TypeError", <<>>, <<>>, inner.file)
    ELSE IF inner.exc # NoExc \/ ~write THEN inner
    ELSE LET s == save_keyring(inner.ret, inner.file, w) IN
         [inner EXCEPT !.exc = s.exc, !.file = s.file,
                       !.ret = IF s.exc = NoExc THEN @ ELSE None]

\* open_keyring_fn as a whole, rd being open_keyring_read of the file
open_keyring_fn(write, kwargs, rd, f, w, inner) ==
    IF rd.raised # NoExc THEN Raise(rd.raised, <<>>, <<>>, f)
    ELSE open_keyring_call(write, kwargs, w, inner)

(***************************************************************************)
(* required_argument_count and validate_label; inner is the result of the  *)
(* function they wrap                                                      *)
(***************************************************************************)
CountMessage(min_args) ==
    "This action requires " \o ToString(min_args) \o " arguments!"

required_argument_count(min_args, args, f, inner) ==
    IF Len(args) < min_args
    THEN Return(None, <<CountMessage(min_args)>>, <<"required_argument_count">>, f)
    ELSE After(<<"required_argument_count">>, inner)

NotValidMessage(label) == label \o " is not a valid label!"
RegisteredMessage(label) == "The label " \o label \o " is already registered!"

\* Mutant of validate_label: the comparison with exists is inverted.
validate_label_inverted(exists, args, keyring, f, inner) ==
    IF Len(args) < 1 THEN Raise("TypeError", <<>>, <<>>, f)
    ELSE IF keyring.k = "None" THEN Raise("TypeError", <<>>, <<"validate_label">>, f)
    ELSE IF dict_contains(keyring.d, args[1]) # exists
    THEN After(<<"validate_label">>, inner)
    ELSE Return(keyring,
                <<IF exists THEN NotValidMessage(args[1])
                  ELSE RegisteredMessage(args[1])>>,
                <<"validate_label">>, f)

validate_label(exists, args, keyring, f, inner) ==
    IF Len(args) < 1 THEN Raise("TypeError", <<>>, <<>>, f)
    ELSE IF keyring.k = "None" THEN Raise("TypeError", <<>>, <<"validate_label">>, f)
    ELSE IF dict_contains(keyring.d, args[1]) = exists
    THEN After(<<"validate_label">>, inner)
    ELSE Return(keyring,
                <<IF exists THEN NotValidMessage(args[1])
                  ELSE RegisteredMessage(args[1])>>,
                <<"validate_label">>, f)

(***************************************************************************)
(* The commands.  X_body is the function as written, X_fn the function     *)
(* under its inner decorators, X the function under all of them.           *)
(***************************************************************************)
print_version == <<VERSION>>

Header == "LABEL\tADDRESS"
Row(e) == e[1] \o "\t" \o e[2]

list_keys_body(args, keyring, f) ==
    IF BindError(<<"keyring">>, Len(args)) THEN Raise("TypeError", <<>>, <<>>, f)
    ELSE IF keyring.k = "None"
    THEN Raise("AttributeError", <<Header>>, <<"list_keys">>, f)
    ELSE Return(keyring,
                <<Header>> \o [i \in 1..Len(keyring.d) |-> Row(keyring.d[i])],
                <<"list_keys">>, f)

add_key_body(args, keyring, f) ==
    IF BindError(<<"label", "addr", "keyring">>, Len(args))
    THEN Raise("TypeError", <<>>, <<>>, f)
    ELSE IF keyring.k = "None" THEN Raise("TypeError", <<>>, <<"add_key">>, f)
    ELSE Return(Dict(dict_setitem(keyring.d, args[1], args[2])), <<>>,
                <<"add_key">>, f)

\* Mutant of add_key_fn: the two decorators are stacked the other way round.
add_key_fn_count_first(args, keyring, f) ==
    required_argument_count(2, args, f,
        validate_label(FALSE, args, keyring, f, add_key_body(args, keyring, f)))

add_key_fn(args, keyring, f) ==
    validate_label(FALSE, args, keyring, f,
        required_argument_count(2, args, f, add_key_body(args, keyring, f)))

add_key(args, kwargs, f, w) ==
    LET rd == open_keyring_read(f) IN
    open_keyring_fn(TRUE, kwargs, rd, f, w, add_key_fn(args, rd.keyring, f))

remove_key_body(args, keyring, f) ==
    IF BindError(<<"label", "keyring">>, Len(args))
    THEN Raise("TypeError", <<>>, <<>>, f)
    ELSE IF keyring.k = "None" THEN Raise("AttributeError", <<>>, <<"remove_key">>, f)
    ELSE IF ~dict_contains(keyring.d, args[1])
    THEN Raise("KeyError", <<>>, <<"remove_key">>, f)
    ELSE Return(Dict(dict_pop(keyring.d, args[1])), <<>>, <<"remove_key">>, f)

remove_key_fn(args, keyring, f) ==
    validate_label(TRUE, args, keyring, f,
        required_argument_count(1, args, f, remove_key_body(args, keyring, f)))

remove_key(args, kwargs, f, w) ==
    LET rd == open_keyring_read(f) IN
    open_keyring_fn(TRUE, kwargs, rd, f, w, remove_key_fn(args, rd.keyring, f))

\* rename_key calls the decorated add_key and remove_key with keyring=keyring
rename_key_body(args, keyring, f, w) ==
    IF BindError(<<"label", "new_label", "keyring">>, Len(args))
    THEN Raise("TypeError", <<>>, <<>>, f)
    ELSE IF keyring.k = "None" THEN Raise("TypeError", <<>>, <<"rename_key">>, f)
    ELSE IF ~dict_contains(keyring.d, args[1])
    THEN Raise("KeyError", <<>>, <<"rename_key">>, f)
    ELSE
      LET a == add_key(<<args[2], dict_getitem(keyring.d, args[1])>>,
                       {"keyring"}, f, w)
          r == remove_key(<<args[1]>>, {"keyring"}, a.file, w)
      IN  IF a.exc # NoExc
          THEN Raise(a.exc, a.out, <<"rename_key">> \o a.ev, a.file)
          ELSE IF ~truthy(a.ret)
          THEN Return(keyring, a.out, <<"rename_key">> \o a.ev, a.file)
          ELSE IF r.exc # NoExc
          THEN Raise(r.exc, a.out \o r.out, <<"rename_key">> \o a.ev \o r.ev, r.file)
          ELSE Return(keyring, a.out \o r.out, <<"rename_key">> \o a.ev \o r.ev,
                      r.file)

rename_key_fn(args, keyring, f, w) ==
    required_argument_count(2, args, f, rename_key_body(args, keyring, f, w))

ConnectingMessage(addr) == "Connecting to " \o addr \o "..."
FinishedMessage == "ssh session finished"

ssh_connect_body(args, keyring, f) ==
    IF BindError(<<"label", "keyring">>, Len(args))
    THEN Raise("TypeError", <<>>, <<>>, f)
    ELSE IF keyring.k = "None" THEN Raise("TypeError", <<>>, <<"ssh_connect">>, f)
    ELSE IF ~dict_contains(keyring.d, args[1])
    THEN Raise("KeyError", <<>>, <<"ssh_connect">>, f)
    ELSE Return(keyring,
                <<ConnectingMessage(dict_getitem(keyring.d, args[1])),
                  FinishedMessage>>,
                <<"ssh_connect">>, f)

ssh_connect_fn(args, keyring, f) ==
    validate_label(TRUE, args, keyring, f,
        required_argument_count(1, args, f, ssh_connect_body(args, keyring, f)))

ssh_run_body(args, keyring, f) ==
    IF BindError(<<"label", "command", "keyring">>, Len(args))
    THEN Raise("TypeError", <<>>, <<>>, f)
    ELSE IF keyring.k = "None" THEN Raise("TypeError", <<>>, <<"ssh_run">>, f)
    ELSE IF ~dict_contains(keyring.d, args[1])
    THEN Raise("KeyError", <<>>, <<"ssh_run">>, f)
    ELSE Return(keyring,
                <<ConnectingMessage(dict_getitem(keyring.d, args[1])),
                  FinishedMessage>>,
                <<"ssh_run">>, f)

ssh_run_fn(args, keyring, f) ==
    validate_label(TRUE, args, keyring, f,
        required_argument_count(2, args, f, ssh_run_body(args, keyring, f)))

\* json.dumps(v) as the line export prints
RECURSIVE MembersText(_)
MembersText(d) ==
    IF d = <<>> THEN ""
    ELSE "\"" \o Head(d)[1] \o "\": \"" \o Head(d)[2] \o "\""
         \o (IF Tail(d) = <<>> THEN "" ELSE ", " \o MembersText(Tail(d)))

json_text(v) == IF v.k = "None" THEN "null" ELSE "{" \o MembersText(v.d) \o "}"

export_keyring_body(args, keyring, f) ==
    IF BindError(<<"keyring">>, Len(args)) THEN Raise("TypeError", <<>>, <<>>, f)
    ELSE Return(keyring, <<json_text(keyring)>>, <<"export_keyring">>, f)

MergingMessage == "Merging current keyring and external keyring..."

\* def import_keyring(keyring, filepath): keyring is the FIRST parameter
import_keyring_body(args, keyring, f) ==
    IF BindError(<<"keyring", "filepath">>, Len(args))
    THEN Raise("TypeError", <<>>, <<>>, f)
    ELSE
      LET path == args[1]
          r == read_json(IF path \in Paths THEN ImportFiles[path] ELSE Missing)
      IN  IF r.exc # NoExc
          THEN Raise(r.exc, <<MergingMessage>>, <<"import_keyring">>, f)
          ELSE IF keyring.k = "None" \/ r.val.k = "None"
          THEN Raise("TypeError", <<MergingMessage>>, <<"import_keyring">>, f)
          ELSE Return(Dict(dict_merge(keyring.d, r.val.d)), <<MergingMessage>>,
                      <<"import_keyring">>, f)

import_keyring_fn(args, keyring, f) ==
    required_argument_count(1, args, f, import_keyring_body(args, keyring, f))

(***************************************************************************)
(* main                                                                    *)
(***************************************************************************)
commands == {"version", "list", "add", "rename", "remove", "connect",
             "export", "import", "run"}

print_usage ==
    <<"USAGE: sw COMMAND", "", "Possible commands:", "", "sw version",
      "sw list", "sw add       LABEL   ADDR", "sw rename    LABEL   NEWLABEL",
      "sw remove    LABEL", "sw connect   LABEL", "sw run       LABEL   COMMAND",
      "sw export", "sw import    FILE">>

\* whether the command is decorated with open_keyring() or
\* open_keyring(write=False)
writes(c) == c \notin {"list", "export"}

\* commands[command] under every decorator but open_keyring
command_fn(c, args, keyring, f, w) ==
    CASE c = "list" -> list_keys_body(args, keyring, f)
      [] c = "add" -> add_key_fn(args, keyring, f)
      [] c = "rename" -> rename_key_fn(args, keyring, f, w)
      [] c = "remove" -> remove_key_fn(args, keyring, f)
      [] c = "connect" -> ssh_connect_fn(args, keyring, f)
      [] c = "export" -> export_keyring_body(args, keyring, f)
      [] c = "import" -> import_keyring_fn(args, keyring, f)
      [] OTHER -> ssh_run_fn(args, keyring, f)

(***************************************************************************)
(* The invocations.  The command lines are sys.argv[1:]; "" stands for no  *)
(* command at all and "help" for a name that is no command.                *)
(***************************************************************************)
Procs == {1, 2}

ArgChoices(c, i) ==
    CASE i = 1 -> IF c = "import" THEN Paths ELSE Labels
      [] i = 2 -> IF c = "rename" THEN Labels
                  ELSE IF c = "run" THEN {"uptime"} ELSE Addrs
      [] OTHER -> Extra

RECURSIVE ArgListsOfLen(_, _)
ArgListsOfLen(c, n) ==
    IF n = 0 THEN {<<>>}
    ELSE {Append(a, x) : a \in ArgListsOfLen(c, n - 1), x \in ArgChoices(c, n)}

ArgLists(c) == UNION {ArgListsOfLen(c, n) : n \in 0..MaxArgs}

CommandNames == commands \cup {"", "help"}

VARIABLES
    file,      \* the content of ~/.sw/keyring.json
    origin,    \* the content the file had at the start
    pc,        \* per process: "idle", "loaded" (between load and call), "done"
    cmd,       \* per process: the command of its current or last invocation
    argv,      \* per process: the arguments after the command
    load,      \* per process: what the load step read and raised
    keyring,   \* per process: the keyring the load step produced
    out,       \* per process: the lines printed
    exc,       \* per process: the exception the invocation ended with
    ev         \* per process: the decorators and bodies that ran, in order

vars == <<file, origin, pc, cmd, argv, load, keyring, out, exc, ev>>

NoLoad == [read |-> "unread", raised |-> NoExc]

Init ==
    /\ file \in {Missing, Malformed, Undecodable}
    /\ origin = file
    /\ pc = [p \in Procs |-> "idle"]
    /\ cmd = [p \in Procs |-> ""]
    /\ argv = [p \in Procs |-> <<>>]
    /\ load = [p \in Procs |-> NoLoad]
    /\ keyring = [p \in Procs |-> None]
    /\ out = [p \in Procs |-> <<>>]
    /\ exc = [p \in Procs |-> NoExc]
    /\ ev = [p \in Procs |-> <<>>]

\* main() up to and including the load step of the command's open_keyring
Invoke(p, c, args) ==
    /\ pc[p] \in {"idle", "done"}
    /\ cmd' = [cmd EXCEPT ![p] = c]
    /\ argv' = [argv EXCEPT ![p] = args]
    /\ ev' = [ev EXCEPT ![p] = <<>>]
    /\ IF c \notin commands \/ c = "version"
       THEN /\ out' = [out EXCEPT ![p] = IF c = "version" THEN print_version
                                         ELSE print_usage]
            /\ load' = [load EXCEPT ![p] = NoLoad]
            /\ keyring' = [keyring EXCEPT ![p] = None]
            /\ exc' = [exc EXCEPT ![p] = NoExc]
            /\ pc' = [pc EXCEPT ![p] = "done"]
       ELSE LET rd == open_keyring_read(file) IN
            /\ out' = [out EXCEPT ![p] = <<>>]
            /\ load' = [load EXCEPT ![p] = [read |-> rd.read, raised |-> rd.raised]]
            /\ keyring' = [keyring EXCEPT ![p] = rd.keyring]
            /\ exc' = [exc EXCEPT ![p] = rd.raised]
            /\ pc' = [pc EXCEPT ![p] = IF rd.raised = NoExc THEN "loaded" ELSE "done"]
    /\ UNCHANGED <<file, origin>>

\* the rest of open_keyring_fn: the command on the loaded keyring, the save
Call(p, w) ==
    /\ pc[p] = "loaded"
    /\ LET r == open_keyring_call(writes(cmd[p]), {}, w,
                    command_fn(cmd[p], argv[p], keyring[p], file, w))
       IN  /\ out' = [out EXCEPT ![p] = r.out]
           /\ exc' = [exc EXCEPT ![p] = r.exc]
           /\ ev' = [ev EXCEPT ![p] = r.ev]
           /\ file' = r.file
    /\ pc' = [pc EXCEPT ![p] = "done"]
    /\ UNCHANGED <<origin, cmd, argv, load, keyring>>

\* One user: an invocation ends before the next one starts.
Start == \E c \in CommandNames : \E args \in ArgLists(c) : Invoke(1, c, args)
Run == \E w \in BOOLEAN : Call(1, w)

Next == Start \/ Run

Spec == Init /\ [][Next]_vars

\* Two processes that add entries and list them at the same time.
ConcCommands == {"add", "list"}
ConcArgs(c) == ArgListsOfLen(c, IF c = "add" THEN 2 ELSE 0)

StartAny ==
    \E p \in Procs : \E c \in ConcCommands : \E args \in ConcArgs(c) :
        Invoke(p, c, args)
RunAny == \E p \in Procs : Call(p, TRUE)

NextConc == StartAny \/ RunAny

SpecConc == Init /\ [][NextConc]_vars

(***************************************************************************)
(* What the properties are stated with: the entries and labels of a dict,  *)
(* and when a file holds the keyring v.  A missing or unparsable file and  *)
(* the empty object hold the same, empty, keyring.                         *)
(***************************************************************************)
Entries(d) == {d[i] : i \in 1..Len(d)}
KeysOf(d) == {d[i][1] : i \in 1..Len(d)}

Holds(f, v) ==
    /\ v.k = "dict"
    /\ \/ f.t = "object" /\ f.d = v.d
       \/ f.t \in {"missing", "malformed"} /\ v.d = <<>>

\* The user's invocation has ended / ended after a load that gave a dict.
Ended == pc[1] = "done"
EndedOnDict == Ended /\ load[1].raised = NoExc /\ keyring[1].k = "dict"

\* C1, first half: add with exactly two arguments whose label is not in the
\* loaded keyring persists the loaded keyring plus label -> address, every
\* other entry unchanged (unless the file cannot be written).
AddPersists ==
    (/\ EndedOnDict
     /\ cmd[1] = "add"
     /\ Len(argv[1]) = 2
     /\ argv[1][1] \notin KeysOf(keyring[1].d)
     /\ exc[1] # "PermissionError")
    => /\ exc[1] = NoExc
       /\ out[1] = <<>>
       /\ file.t = "object"
       /\ Len(file.d) = Len(keyring[1].d) + 1
       /\ Entries(file.d) = Entries(keyring[1].d) \cup {<<argv[1][1], argv[1][2]>>}

\* C1, second half: list prints the header row and then one
\* label<TAB>address row per entry of the keyring it loaded.
ListPrints ==
    (EndedOnDict /\ cmd[1] = "list" /\ argv[1] = <<>>)
    => /\ exc[1] = NoExc
       /\ Len(out[1]) = Len(keyring[1].d) + 1
       /\ out[1][1] = "LABEL\tADDRESS"
       /\ \A i \in 1..Len(keyring[1].d) :
              out[1][i + 1] = keyring[1].d[i][1] \o "\t" \o keyring[1].d[i][2]
       /\ Holds(file, keyring[1])

\* C1: add(label, address) of an unregistered label persists the loaded
\* keyring plus that entry, and a following list prints the header and one
\* row per entry.
AddThenList == AddPersists /\ ListPrints

\* C1 witness: a list, after add db 10.0.0.1 on an empty keyring, has printed
\* the header and exactly the one row.
AddThenListWitness ==
    /\ Ended
    /\ cmd[1] = "list"
    /\ origin = Missing
    /\ file = [t |-> "object", d |-> <<<<"db", "10.0.0.1">>>>]
    /\ out[1] = <<"LABEL\tADDRESS", "db\t10.0.0.1">>

\* C2: add with one argument prints the argument-count message and leaves
\* the persisted keyring as it was, whether or not the label is registered.
AddOneArgumentKeepsKeyring ==
    (EndedOnDict /\ cmd[1] = "add" /\ Len(argv[1]) = 1)
    => /\ exc[1] \in {NoExc, "PermissionError"}
       /\ CountMessage(2) \in {out[1][i] : i \in 1..Len(out[1])}
       /\ Holds(file, keyring[1])

\* C3: rename(a, b) with a registered and b not completes and persists a
\* keyring where b has a's former address, a is absent, the rest unchanged.
RenameMovesAddress ==
    (/\ EndedOnDict
     /\ cmd[1] = "rename"
     /\ Len(argv[1]) = 2
     /\ argv[1][1] \in KeysOf(keyring[1].d)
     /\ argv[1][2] \notin KeysOf(keyring[1].d)
     /\ exc[1] # "PermissionError")
    => /\ exc[1] = NoExc
       /\ file.t = "object"
       /\ Entries(file.d) =
              {IF e[1] = argv[1][1] THEN <<argv[1][2], e[2]>> ELSE e :
               e \in Entries(keyring[1].d)}

\* C4: import with one argument naming a readable file that holds a JSON
\* object persists the right-biased union of the keyring and that object.
ImportMergesRightBiased ==
    (/\ EndedOnDict
     /\ cmd[1] = "import"
     /\ Len(argv[1]) = 1
     /\ ImportFiles[argv[1][1]].t = "object"
     /\ exc[1] # "PermissionError")
    => /\ exc[1] = NoExc
       /\ file.t = "object"
       /\ Entries(file.d) =
              Entries(ImportFiles[argv[1][1]].d) \cup
              {e \in Entries(keyring[1].d) :
                  e[1] \notin KeysOf(ImportFiles[argv[1][1]].d)}

\* The label check of the invocation failed: add of a registered label,
\* remove of an unregistered one.
LabelCheckFailed ==
    /\ EndedOnDict
    /\ Len(argv[1]) >= 1
    /\ \/ cmd[1] = "add" /\ argv[1][1] \in KeysOf(keyring[1].d)
       \/ cmd[1] = "remove" /\ argv[1][1] \notin KeysOf(keyring[1].d)

\* C5: a failed label check is a no-op on the keyring: the message is
\* printed, the command body does not run, and the persisted keyring is the
\* one that was loaded (add does not overwrite the registered address).
LabelFailureIsNoOp ==
    LabelCheckFailed
    => /\ out[1] = <<IF cmd[1] = "add"
                     THEN "The label " \o argv[1][1] \o " is already registered!"
                     ELSE argv[1][1] \o " is not a valid label!">>
       /\ ev[1] = <<"validate_label">>
       /\ exc[1] \in {NoExc, "PermissionError"}
       /\ Holds(file, keyring[1])

\* C5 witness: a second add of db, with another address, has printed the
\* message and left the first address in place.
LabelFailureWitness ==
    /\ LabelCheckFailed
    /\ cmd[1] = "add"
    /\ argv[1] = <<"db", "10.0.0.2">>
    /\ exc[1] = NoExc
    /\ file = [t |-> "object", d |-> <<<<"db", "10.0.0.1">>>>]

\* C6: starting from a missing file or a JSON object, the keyring file,
\* when present, holds a JSON object and never any other JSON value.
KeyringFileHoldsObject ==
    (origin.t \in {"missing", "object"} /\ pc[1] # "loaded")
    => file.t \in {"missing", "object"}

\* C7: when the keyring file is missing or its content does not parse as
\* JSON, the load step raises nothing and the command gets an empty keyring.
LoadNeverFails ==
    (pc[1] # "idle" /\ load[1].read \in {"missing", "malformed", "undecodable"})
    => load[1].raised = NoExc /\ keyring[1] = Dict(<<>>)

\* The number of arguments each command takes, and whether the labels of
\* the invocation meet the command's existence requirement.
Takes(c) == IF c \in {"add", "rename", "run"} THEN 2 ELSE 1

LabelRequirementMet ==
    CASE cmd[1] = "import" -> TRUE
      [] cmd[1] = "add" -> argv[1][1] \notin KeysOf(keyring[1].d)
      [] cmd[1] = "rename" ->
            /\ argv[1][1] \in KeysOf(keyring[1].d)
            /\ Len(argv[1]) >= 2 => argv[1][2] \notin KeysOf(keyring[1].d)
      [] OTHER -> argv[1][1] \in KeysOf(keyring[1].d)

\* C8: an invocation of add, rename, remove, connect, run or import with a
\* wrong number of arguments or a label that fails its requirement ends
\* with a printed message and a normal exit.
SoftFailuresExitNormally ==
    (/\ EndedOnDict
     /\ cmd[1] \in {"add", "rename", "remove", "connect", "run", "import"}
     /\ \/ Len(argv[1]) # Takes(cmd[1])
        \/ ~LabelRequirementMet
     /\ exc[1] # "PermissionError")
    => exc[1] = NoExc /\ out[1] # <<>>

\* What the checks of add, remove, connect and run need.
MinArgs(c) == IF c \in {"add", "run"} THEN 2 ELSE 1
BodyOf(c) ==
    CASE c = "add" -> "add_key"
      [] c = "remove" -> "remove_key"
      [] c = "connect" -> "ssh_connect"
      [] OTHER -> "ssh_run"

LabelPasses ==
    /\ Len(argv[1]) >= 1
    /\ (argv[1][1] \in KeysOf(keyring[1].d)) <=> (cmd[1] # "add")

\* C9: for add, remove, connect and run the label check is evaluated first,
\* on the arguments that are present; the argument count is checked only if
\* the label check passes; the body runs only if both pass; when both would
\* fail only the label message is printed.
LabelCheckedBeforeCount ==
    (/\ EndedOnDict
     /\ cmd[1] \in {"add", "remove", "connect", "run"}
     /\ Len(argv[1]) >= 1)
    => /\ Len(ev[1]) >= 1
       /\ ev[1] = SubSeq(<<"validate_label", "required_argument_count",
                           BodyOf(cmd[1])>>, 1, Len(ev[1]))
       /\ Len(ev[1]) >= 2 <=> LabelPasses
       /\ Len(ev[1]) = 3 => (LabelPasses /\ Len(argv[1]) >= MinArgs(cmd[1]))
       /\ (LabelPasses /\ Len(argv[1]) = MinArgs(cmd[1])) => Len(ev[1]) = 3
       /\ (~LabelPasses /\ Len(argv[1]) < MinArgs(cmd[1]))
          => out[1] = <<IF cmd[1] = "add"
                        THEN "The label " \o argv[1][1] \o " is already registered!"
                        ELSE argv[1][1] \o " is not a valid label!">>

\* C9 witness: run with one argument, a label that is not registered, has
\* printed the label message only.
LabelCheckedBeforeCountWitness ==
    /\ EndedOnDict
    /\ cmd[1] = "run"
    /\ argv[1] = <<"web">>
    /\ keyring[1].d = <<<<"db", "10.0.0.1">>>>
    /\ out[1] = <<"web is not a valid label!">>
    /\ ev[1] = <<"validate_label">>

\* Both processes have completed an add, of distinct labels, each on a
\* loaded keyring that has neither label: both loaded before either saved.
BothAddedUnseen ==
    /\ \A p \in Procs :
          /\ pc[p] = "done"
          /\ cmd[p] = "add"
          /\ Len(argv[p]) = 2
          /\ exc[p] = NoExc
          /\ keyring[p].k = "dict"
    /\ argv[1][1] # argv[2][1]
    /\ \A p \in Procs :
          KeysOf(keyring[p].d) \cap {argv[1][1], argv[2][1]} = {}

\* C10: when two processes run add with distinct unregistered labels and
\* both load before either saves, the persisted keyring ends with only one
\* of the two labels.
LostUpdate ==
    BothAddedUnseen
    => /\ file.t = "object"
       /\ Cardinality(KeysOf(file.d) \cap {argv[1][1], argv[2][1]}) = 1

\* C10 witness: db and web were added to the empty keyring at the same time
\* and only web is persisted.
LostUpdateWitness ==
    /\ BothAddedUnseen
    /\ argv[1][1] = "db"
    /\ argv[2][1] = "web"
    /\ origin = Missing
    /\ KeysOf(file.d) = {"web"}

====
